---- MODULE Spec2Model ----
(***************************************************************************)
(* HeartMuLa front-ends: the desktop shell (heartmula.py) and the browser  *)
(* shell (heartmula_gradio.py).  The module models                         *)
(*   - MulaSettings.load / MulaSettings.save of both shells,               *)
(*   - the generation state machine of both shells (validation, scratch    *)
(*     files, output-name probe, child process, finish/stop/play).         *)
(***************************************************************************)
EXTENDS Integers, Sequences, FiniteSets, TLC

(***************************************************************************)
(* Bounds of the model.                                                    *)
(***************************************************************************)
\* longest model_path text (in tokens) a settings record or file may hold
MaxPathLen == 2
\* most members of a hand-written settings JSON object
MaxMembers == 2
\* most child processes one shell spawns
MaxRuns == 2
\* most stop clicks that reach kill()
MaxStops == 1
\* most files the play button opens
MaxOpens == 1
\* the browser sessions are 1..NumSessions
NumSessions == 1
\* most characters a child writes to its output
MaxOutput == 3
\* most genres of a preset catalog on disk
MaxGenres == 2
\* most calls of PresetManager.load
MaxLoads == 2
\* the longest stored duration, in seconds
MaxSeconds == 90000

(***************************************************************************)
(* Text.  A text is a sequence of tokens; a token stands for a run of      *)
(* characters.  str.lower() and the substring test `pat in text` work on   *)
(* the tokens.                                                             *)
(***************************************************************************)
Tokens == {"ckpt", "models/", "Models/", "HeartMuLa", "heartmula", "x/"}

\* the tokens of tags texts: a blank, a comma and words
TagTokens == {" ", ",", "Rock", "rock", "pop"}

\* str.lower() of one token
LowerTok(t) ==
    CASE t = "Models/"   -> "models/"
      [] t = "HeartMuLa" -> "heartmula"
      [] t = "Rock"      -> "rock"
      [] OTHER           -> t

\* str.lower()
Lower(s) == [i \in 1..Len(s) |-> LowerTok(s[i])]

\* Python's `pat in s` for two texts
Contains(pat, s) ==
    \E i \in 0..(Len(s) - Len(pat)) :
        \A j \in 1..Len(pat) : s[i + j] = pat[j]

\* every text of at most n tokens
TextsUpTo(n) == UNION {[1..k -> Tokens] : k \in 0..n}

(***************************************************************************)
(* JSON values.  t is the JSON/Python type, v holds the value: a text, an  *)
(* integer, a float in tenths, or a boolean.                               *)
(***************************************************************************)
JStr(s)   == [t |-> "str",   v |-> s]
JInt(n)   == [t |-> "int",   v |-> <<n>>]
JFloat(x) == [t |-> "float", v |-> <<x>>]
JBool(b)  == [t |-> "bool",  v |-> <<b>>]

(***************************************************************************)
(* MulaSettings: the fields of the dataclass, in declaration order, and    *)
(* their defaults, for each shell.                                         *)
(***************************************************************************)
Shells == {"desktop", "browser"}

DesktopFields ==
    <<"model_path", "version", "max_audio_length_ms", "topk", "temperature",
      "cfg_scale", "lyrics_text", "tags_text", "output_dir", "auto_open_output">>

BrowserFields ==
    <<"model_path", "version", "max_audio_length_sec", "topk", "temperature",
      "cfg_scale", "output_dir">>

Fields(shell) == IF shell = "desktop" THEN DesktopFields ELSE BrowserFields

FieldSet(shell) == {Fields(shell)[i] : i \in 1..Len(Fields(shell))}

DesktopDefaults ==
    [model_path          |-> JStr(<<"ckpt">>),
     version             |-> JStr(<<"3B">>),
     max_audio_length_ms |-> JInt(240000),
     topk                |-> JInt(50),
     temperature         |-> JFloat(10),
     cfg_scale           |-> JFloat(15),
     lyrics_text         |-> JStr(<<"sample song">>),
     tags_text           |-> JStr(<<"club house, female vocals">>),
     output_dir          |-> JStr(<<"output">>),
     auto_open_output    |-> JBool(TRUE)]

BrowserDefaults ==
    [model_path           |-> JStr(<<"ckpt">>),
     version              |-> JStr(<<"3B">>),
     max_audio_length_sec |-> JInt(240),
     topk                 |-> JInt(50),
     temperature          |-> JFloat(10),
     cfg_scale            |-> JFloat(15),
     output_dir           |-> JStr(<<"output">>)]

\* MulaSettings()
Defaults(shell) == IF shell = "desktop" THEN DesktopDefaults ELSE BrowserDefaults

(***************************************************************************)
(* The content of a settings file.                                         *)
(*   Absent            the path does not exist                             *)
(*   kind "invalid"    text that json.loads rejects                        *)
(*   kind "nonobject"  valid JSON that is not an object (list, number ...) *)
(*   kind "object"     a JSON object: its members, in file order           *)
(***************************************************************************)
Absent == [kind |-> "absent"]
InvalidJson == [kind |-> "invalid"]
NonObjectJson == [kind |-> "nonobject"]
Object(ms) == [kind |-> "object", members |-> ms]

\* the keys of a member list
Keys(ms) == {ms[i][1] : i \in 1..Len(ms)}

\* json.loads of an object: a dict; of two members with one key the later wins
DictOf(ms) ==
    [k \in Keys(ms) |->
        LET last == CHOOSE i \in 1..Len(ms) :
                        /\ ms[i][1] = k
                        /\ \A j \in (i + 1)..Len(ms) : ms[j][1] # k
        IN  ms[last][2]]

\* the outcome of a call: a returned record or a raised exception
Returned(rec) == [ok |-> TRUE, rec |-> rec]
Raised(exc) == [ok |-> FALSE, exc |-> exc]

\* a migration test that looks for the one spelling "models/HeartMuLa" only
IsLegacyPathExactCase(old_path) ==
    Contains(<<"models/", "HeartMuLa">>, old_path)

\* the migration test of load: the stored text names a legacy model folder
IsLegacyPath(old_path) ==
    \/ Contains(<<"models/", "HeartMuLa">>, old_path)
    \/ Contains(<<"models/", "heartmula">>, Lower(old_path))

\* a migration step that rewrites only a text beginning with the folder
MigratePrefixOnly(data) ==
    IF /\ "model_path" \in DOMAIN data
       /\ Len(data["model_path"].v) >= 2
       /\ SubSeq(data["model_path"].v, 1, 2) = <<"models/", "HeartMuLa">>
    THEN [data EXCEPT !["model_path"] = JStr(<<"ckpt">>)]
    ELSE data

\* the migration step of load on the parsed dict
Migrate(data) ==
    IF "model_path" \in DOMAIN data /\ IsLegacyPath(data["model_path"].v)
    THEN [data EXCEPT !["model_path"] = JStr(<<"ckpt">>)]
    ELSE data

\* Construct without the filter on recognised keys: an unknown key is an
\* unexpected keyword argument, and load falls back to the defaults
ConstructUnfiltered(shell, data) ==
    IF DOMAIN data \subseteq FieldSet(shell)
    THEN [f \in FieldSet(shell) |->
            IF f \in DOMAIN data THEN data[f] ELSE Defaults(shell)[f]]
    ELSE Defaults(shell)

\* MulaSettings(**{k: v for k, v in data.items() if k in __dataclass_fields__})
Construct(shell, data) ==
    [f \in FieldSet(shell) |->
        IF f \in DOMAIN data THEN data[f] ELSE Defaults(shell)[f]]

\* the body of load's try block
TryLoad(shell, content) ==
    IF content.kind # "object"
    THEN Raised("Exception")
    ELSE LET data == DictOf(content.members) IN
         IF "model_path" \in DOMAIN data /\ data["model_path"].t # "str"
         THEN Raised("TypeError")
         ELSE Returned(Construct(shell, Migrate(data)))

\* load's except clause
ExceptHandler(shell) ==
    IF shell = "desktop"
    THEN Raised("NameError")
    ELSE Returned(Defaults(shell))

\* MulaSettings.load(path)
Load(shell, content) ==
    IF content.kind = "absent"
    THEN Returned(Defaults(shell))
    ELSE LET r == TryLoad(shell, content) IN
         IF r.ok THEN r ELSE ExceptHandler(shell)

\* Dumps that loses the first field of the record
DumpsOffByOne(shell, rec) ==
    Object([i \in 1..(Len(Fields(shell)) - 1) |->
               <<Fields(shell)[i + 1], rec[Fields(shell)[i + 1]]>>])

\* json.dumps(asdict(self)): the members in field order
Dumps(shell, rec) ==
    Object([i \in 1..Len(Fields(shell)) |->
               <<Fields(shell)[i], rec[Fields(shell)[i]]>>])

\* MulaSettings.save(path): the file content it leaves
Save(shell, rec) == Dumps(shell, rec)

(***************************************************************************)
(* The preset catalog.  A catalog is a dict with the keys "version" and    *)
(* "genres"; a genre is a dict with a name and, under "presets", a list of *)
(* presets; a preset has a name and a tags text.  The presets field of a   *)
(* genre is <<>> when the key is missing and <<list>> otherwise.           *)
(***************************************************************************)
JList(seq) == [t |-> "list", v |-> seq]

Preset(name, tags) == [name |-> name, tags |-> tags]
Genre(name, presets) == [name |-> name, presets |-> <<presets>>]
GenreWithoutPresets(name) == [name |-> name, presets |-> <<>>]

\* default_presets(): the built-in catalog.  The dash of the preset names,
\* which the two source files hold in two encodings, is written "-".
default_presets ==
    DictOf(<<
      <<"version", JInt(1)>>,
      <<"genres", JList(<<
        Genre("EDM", <<
          Preset("House - Club",
            "club house, 128 bpm, four-on-the-floor kick, offbeat open hi-hat, rolling bassline, sidechain compression, bright supersaw, riser, snare build, drop, festival energy, wide stereo"),
          Preset("Tech House",
            "tech house, 128 bpm, punchy kick and snare, groovy bass, syncopated percussion, shaker loop, minimal vocals, tension build, big drop, club mix"),
          Preset("Melodic Techno",
            "melodic techno, 126 bpm, driving kick, hypnotic arp, dark atmosphere, long buildup, impact hit, drop, cinematic pads"),
          Preset("Big Room",
            "big room, 130 bpm, huge kick, snare roll buildup, white noise riser, supersaw lead, massive drop, festival"),
          Preset("Drum & Bass - Dancefloor",
            "drum and bass, 174 bpm, fast breakbeat, punchy kick and snare, rolling sub bass, reese bass, high energy, tension build, riser, impact hit, big drop, energetic synth stabs, atmospheric pad, DJ friendly, loop-based, minimal vocal chops"),
          Preset("Drum & Bass - Neurofunk",
            "neurofunk, drum and bass, 172 bpm, tight snare, aggressive reese bass, growl bass, syncopated drums, gritty texture, dark atmosphere, industrial sound design, long buildup, snare roll, heavy drop, bass variation, minimal vocals, club mix, hard hitting"),
          Preset("Drum & Bass - Liquid",
            "liquid drum and bass, 170 bpm, crisp breakbeat, warm sub bass, airy pads, emotional chords, clean mix, gentle riser, smooth drop, melodic lead, spacious reverb, minimal vocals, DJ friendly intro and outro"),
          Preset("Techno - Driving Warehouse",
            "techno, 130 bpm, four-on-the-floor kick, rumbling bass, rolling percussion, offbeat hi-hat, hypnotic loop, dark warehouse, minimal vocals, repetitive groove, long buildup, tension, impact hit, drop, DJ friendly"),
          Preset("Techno - Peak Time",
            "peak time techno, 132 bpm, powerful kick, driving bassline, big synth stab, build-up with snare roll, white noise riser, huge drop, energetic percussion, club mix, loop-based, crowd energy"),
          Preset("Techno - Melodic",
            "melodic techno, 126 bpm, driving kick, arpeggiated synth, deep bass, cinematic pad, gradual buildup, impact hit, drop, wide stereo, minimal vocal chops, DJ friendly"),
          Preset("Hard Techno - Rave",
            "hard techno, 150 bpm, hard four-on-the-floor kick, distorted rumble bass, aggressive percussion, rave stabs, intense energy, fast hats, build-up, snare roll, white noise riser, brutal drop, warehouse rave, relentless"),
          Preset("Hard Techno - Industrial",
            "industrial hard techno, 145 bpm, heavy distorted kick, metallic percussion, dark atmosphere, gritty texture, pounding groove, relentless drive, tension build, impact hit, drop, harsh synth, underground"),
          Preset("Hard Techno - Hardgroove",
            "hardgroove techno, 145 bpm, hard kick, groovy tom percussion, syncopated loops, fast hats, tribal percussion, hypnotic repetition, long buildup, drop, rave energy, DJ friendly")>>),
        Genre("Rock", <<
          Preset("Rock - Classic",
            "classic rock, 120 bpm, live drum kit, steady rock groove, crunchy rhythm guitars, melodic lead guitar, electric bass, verse chorus structure, big chorus, warm analog mix, arena feel"),
          Preset("Rock - Hard Rock",
            "hard rock, 140 bpm, driving drums, punchy kick and snare, distorted power chords, palm-muted riffs, big chorus, guitar solo, gritty vocals, aggressive energy, modern rock mix, wide guitars"),
          Preset("Rock - Metal",
            "heavy metal, 160 bpm, double kick, tight snare, fast riffs, palm-muted chugs, aggressive guitar tone, heavy bass, breakdown, solo section, intense vocals, raw power")>>),
        Genre("Pop", <<
          Preset("Pop - Modern",
            "modern pop, 118 bpm, clean punchy drums, bright synths, catchy hook, verse chorus structure, big chorus, polished vocal production, radio-ready mix, uplifting mood, wide stereo"),
          Preset("Pop - Synthpop",
            "synthpop, 112 bpm, retro drum machine, gated snare, warm analog synths, arpeggiator, catchy melody, dreamy chords, smooth vocals, nostalgic 80s vibe, clean mix"),
          Preset("Pop - Dance Pop",
            "dance pop, 124 bpm, four-on-the-floor kick, offbeat open hat, bright chords, sidechain compression, vocal hook, pre-chorus build, drop-style chorus, club-friendly, glossy mix")>>),
        Genre("R&B", <<
          Preset("R&B - Contemporary",
            "contemporary r&b, 92 bpm, smooth drums, deep sub bass, lush chords, soulful vocals, modern vocal layers, relaxed groove, intimate vibe, polished mix"),
          Preset("R&B - Neo Soul",
            "neo soul, 85 bpm, swung groove, warm electric piano, jazzy chords, live bass feel, crisp snare, intimate vocals, laid-back pocket, organic texture, smooth mix"),
          Preset("R&B - Trap Soul",
            "trap soul, 70 bpm, trap hats, 808 bass, minimal chords, airy pads, moody vibe, melodic vocals, emotional hook, sparse arrangement, late-night atmosphere")>>),
        Genre("Rap", <<
          Preset("Rap - Boom Bap",
            "boom bap rap, 92 bpm, classic hip hop drums, punchy kick, snappy snare, sampled vibe, chopped loop, gritty texture, head-nod groove, rap-focused, raw mix"),
          Preset("Rap - Trap",
            "trap rap, 140 bpm, rapid hi-hats, 808 bass, hard snare, dark synth melody, aggressive energy, hook section, beat switch, modern mix, rap-focused"),
          Preset("Rap - Drill",
            "drill rap, 145 bpm, sliding 808, sharp snare, syncopated hi-hats, dark piano or bell melody, tense vibe, aggressive rhythm, rap-forward, hard mix")>>),
        Genre("Ballad / Slow", <<
          Preset("Ballad - Piano",
            "piano ballad, 72 bpm, emotional piano chords, soft drums, gentle strings, intimate vocals, big chorus lift, gradual build, heartfelt mood, warm reverb"),
          Preset("Ballad - Acoustic",
            "acoustic ballad, 78 bpm, acoustic guitar fingerpicking, soft percussion, warm bass, intimate vocal, emotional chorus, natural room sound, organic performance"),
          Preset("Ballad - Cinematic",
            "cinematic ballad, 68 bpm, orchestral strings, piano, soft drums, emotional swells, dramatic build, big climax, film score feel, lush reverb")>>),
        Genre("Instrumental", <<
          Preset("Instrumental - Ambient",
            "ambient instrumental, 70 bpm, evolving pads, soft textures, spacious reverb, slow movement, atmospheric drones, minimal percussion, calming mood, cinematic soundscape, no vocals"),
          Preset("Instrumental - Lo-fi",
            "lofi instrumental, 82 bpm, dusty drums, vinyl crackle texture, jazzy chords, warm bass, relaxed groove, soft melody, chill mood, loop-based, no vocals"),
          Preset("Instrumental - Orchestral",
            "orchestral instrumental, 90 bpm, strings brass woodwinds, cinematic percussion, emotional theme, dynamic build, heroic climax, film score style, wide stereo, no vocals")>>),
        Genre("Reggae", <<
          Preset("Reggae - Roots",
            "roots reggae, 74 bpm, one drop rhythm, skank guitar on offbeat, warm bassline, live drums, relaxed groove, sunny vibe, soulful vocals, organic mix"),
          Preset("Reggae - Dancehall",
            "dancehall, 96 bpm, modern drum pattern, heavy bass, syncopated rhythm, energetic vibe, catchy chant hook, club-ready, bright synth accents, punchy mix"),
          Preset("Reggae - Dub",
            "dub reggae, 72 bpm, deep bass, sparse drums, skank guitar, heavy reverb and delay, echo effects, spacey atmosphere, minimalist groove, instrumental focus")>>),
        Genre("Custom", <<>>)
      >>)>>
    >>)

\* the keys of a catalog dict in the order json.dumps writes them
PresetKeys == <<"version", "genres">>

\* json.dumps(self.data, indent=2, ensure_ascii=False): the JSON object of
\* the dict
PresetDumps(data) ==
    LET InData(k) == k \in DOMAIN data
        ks == SelectSeq(PresetKeys, InData)
    IN  Object([i \in 1..Len(ks) |-> <<ks[i], data[ks[i]]>>])

\* a preset file: its JSON content and the layout of its text, which is
\* "indent=2" for a text json.dumps wrote and "by hand" for any other
PresetFile(layout, content) == [layout |-> layout, content |-> content]
NoPresetFile == PresetFile("no file", Absent)

\* a save that writes nothing
PresetSaveSkipped(file, data) == file

\* PresetManager.save(): the file it leaves in place of the old one
PresetSave(file, data) == PresetFile("indent=2", PresetDumps(data))

\* isinstance(self.data, dict) and "genres" in self.data
HasMarker(content) ==
    content.kind = "object" /\ "genres" \in Keys(content.members)

\* a load that saves what it has parsed
PresetLoadRewriting(file) ==
    IF HasMarker(file.content)
    THEN [data |-> DictOf(file.content.members),
          file |-> PresetSave(file, DictOf(file.content.members))]
    ELSE [data |-> default_presets,
          file |-> PresetSave(file, default_presets)]

\* PresetManager.load(): self.data, which it returns, and the file it leaves
PresetLoad(file) ==
    IF HasMarker(file.content)
    THEN [data |-> DictOf(file.content.members), file |-> file]
    ELSE [data |-> default_presets,
          file |-> PresetSave(file, default_presets)]

\* self.data.get("genres", [])
GenresOf(data) ==
    IF "genres" \in DOMAIN data THEN data["genres"].v ELSE <<>>

\* genre.get("presets", [])
PresetsOf(genre) ==
    IF genre.presets = <<>> THEN <<>> ELSE genre.presets[1]

\* a lookup that answers with the last genre of the name
get_presets_of_last_genre(data, genre_name) ==
    LET genres == GenresOf(data)
        hits == {i \in 1..Len(genres) : genres[i].name = genre_name}
    IN  IF hits = {} THEN <<>>
        ELSE PresetsOf(genres[CHOOSE i \in hits : \A j \in hits : j <= i])

\* PresetManager.get_presets_for_genre(genre_name): the loop returns at the
\* first genre of the name
get_presets_for_genre(data, genre_name) ==
    LET genres == GenresOf(data)
        hits == {i \in 1..Len(genres) : genres[i].name = genre_name}
    IN  IF hits = {} THEN <<>>
        ELSE PresetsOf(genres[CHOOSE i \in hits : \A j \in hits : i <= j])

\* PresetBrowser._on_genre_changed(genre_name): the items of the list after
\* it, one per preset of the first genre of the name
on_genre_changed(presets, genre_name) ==
    LET genres == GenresOf(presets)
        hits == {i \in 1..Len(genres) : genres[i].name = genre_name}
    IN  IF hits = {} THEN <<>>
        ELSE LET ps == PresetsOf(genres[CHOOSE i \in hits :
                                            \A j \in hits : i <= j])
             IN  [k \in 1..Len(ps) |-> Preset(ps[k].name, ps[k].tags)]

\* the result of a lookup, and no lookup yet
Query(name, result) == [name |-> name, result |-> result]
NoQuery == Query("(none)", <<>>)

(***************************************************************************)
(* State.                                                                  *)
(*   app        the program that runs: the desktop or the browser shell    *)
(* The file system, as far as the shells read and write it:                *)
(*   fs_install   the paths of the installation that exist                 *)
(*   fs_dirs      the output and scratch directories that exist            *)
(*   fs_out       the output files that exist                              *)
(*   fs_settings  the content of the shell's settings file                 *)
(*   fs_lyrics, fs_tags   the content of the two scratch files             *)
(* The desktop shell (HeartMuLaApp):                                       *)
(*   d_settings self.settings                                              *)
(*   d_procs    the QProcess objects created so far, self.process last     *)
(*   d_btn      the enabled state of the generate, stop and play buttons   *)
(*   d_status   the text of the status bar                                 *)
(*   d_dialog   the message box shown last                                 *)
(*   d_current_output_file   self.current_output_file                      *)
(*   d_console  the lines of the console                                   *)
(*   d_opened   the files handed to QDesktopServices.openUrl so far        *)
(* The browser shell:                                                      *)
(*   b_pc       per browser session, where its generate_music call is      *)
(*   b_req      per session, the locals of its generate_music call         *)
(*   b_audio, b_status   per session, the two outputs of generate_music    *)
(*   b_procs    the Popen children created so far                          *)
(***************************************************************************)
VARIABLES app,
          fs_install, fs_dirs, fs_out, fs_settings, fs_lyrics, fs_tags,
          d_settings, d_procs, d_btn, d_status, d_dialog,
          d_current_output_file, d_console, d_opened,
          b_pc, b_req, b_audio, b_status, b_procs,
          s_file, s_rec, s_result, s_pc,
          o_written, o_unread, o_log, o_eof,
          p_file, p_data, p_rets, p_found, p_query,
          t_ms, t_time, t_saved

fsvars == <<fs_install, fs_dirs, fs_out, fs_settings, fs_lyrics, fs_tags>>
dvars == <<d_settings, d_procs, d_btn, d_status, d_dialog,
           d_current_output_file, d_console, d_opened>>
bvars == <<b_pc, b_req, b_audio, b_status, b_procs>>
appvars == <<fsvars, dvars, bvars>>
svars == <<s_file, s_rec, s_result, s_pc>>
ovars == <<o_written, o_unread, o_log, o_eof>>
pvars == <<p_file, p_data, p_rets, p_found, p_query>>
tvars == <<t_ms, t_time, t_saved>>
hvars == <<ovars, pvars, tvars>>

(***************************************************************************)
(* Paths.  A path is a text; "root/" is root_dir().                        *)
(***************************************************************************)
\* Path.is_absolute()
IsAbsolute(p) == p # <<>> /\ p[1] \in {"/ext", "root/"}

\* root / p for a relative p, p itself for an absolute one
Resolve(p) == IF IsAbsolute(p) THEN p ELSE <<"root/">> \o p

\* str.strip(): the text without its leading and trailing blanks
RECURSIVE Strip(_)
Strip(s) ==
    IF s = <<>> THEN s
    ELSE IF Head(s) = " " THEN Strip(Tail(s))
    ELSE IF s[Len(s)] = " " THEN Strip(SubSeq(s, 1, Len(s) - 1))
    ELSE s

\* str.split(","): the pieces between the commas
RECURSIVE Split(_)
Split(s) ==
    IF \A i \in 1..Len(s) : s[i] # ","
    THEN <<s>>
    ELSE LET i == CHOOSE k \in 1..Len(s) :
                      s[k] = "," /\ \A j \in 1..(k - 1) : s[j] # ","
         IN  <<SubSeq(s, 1, i - 1)>> \o Split(SubSeq(s, i + 1, Len(s)))

\* ",".join(parts)
RECURSIVE Join(_)
Join(parts) ==
    IF parts = <<>> THEN <<>>
    ELSE IF Len(parts) = 1 THEN parts[1]
    ELSE parts[1] \o <<",">> \o Join(Tail(parts))

\* format_tags_for_file(tags)
format_tags_for_file(tags) ==
    IF tags = <<>> \/ Strip(tags) = <<>>
    THEN <<>>
    ELSE LET parts == Split(Lower(Strip(tags)))
         IN  Join([i \in 1..Len(parts) |-> Strip(parts[i])])

(***************************************************************************)
(* validate_installation (the same code in both shells).                   *)
(***************************************************************************)
\* the four required sub-paths, in the order of the `required` list
RequiredNames ==
    <<"HeartCodec-oss", "HeartMuLa-oss-3B", "gen_config.json", "tokenizer.json">>

\* root / "examples" / "run_music_generation.py"
ScriptPath == <<"root/", "examples/run_music_generation.py">>

\* a filter that stops at the first element it keeps
FilterFirstOnly(seq, keep) ==
    IF \A i \in 1..Len(seq) : seq[i] \notin keep
    THEN <<>>
    ELSE <<seq[CHOOSE i \in 1..Len(seq) :
                  seq[i] \in keep /\ \A j \in 1..(i - 1) : seq[j] \notin keep]>>

\* the elements of seq, in order, that satisfy keep
RECURSIVE Filter(_, _)
Filter(seq, keep) ==
    IF seq = <<>> THEN <<>>
    ELSE (IF Head(seq) \in keep THEN <<Head(seq)>> ELSE <<>>)
            \o Filter(Tail(seq), keep)

\* validate_installation: (ok, error); the error names what is missing
validate_installation(model_path) ==
    LET model_dir == Resolve(Strip(model_path))
        required == [i \in 1..4 |-> model_dir \o <<RequiredNames[i]>>]
        missing == Filter(required, {required[i] : i \in 1..4} \ fs_install)
    IN  IF model_dir \notin fs_install
        THEN [ok |-> FALSE, error |-> <<"Model directory not found", <<model_dir>>>>]
        ELSE IF missing # <<>>
        THEN [ok |-> FALSE, error |-> <<"Missing model files", missing>>]
        ELSE IF ScriptPath \notin fs_install
        THEN [ok |-> FALSE, error |-> <<"Generation script not found", <<ScriptPath>>>>]
        ELSE [ok |-> TRUE, error |-> <<"", <<>>>>]

(***************************************************************************)
(* The output file name.  A file is its directory, the timestamp in its    *)
(* name and the counter suffix (0: no suffix).                             *)
(***************************************************************************)
OutFile(dir, t, k) == [dir |-> dir, t |-> t, k |-> k]
NoFile == [none |-> TRUE]

\* the probe loop: counter is the suffix the loop tries next
RECURSIVE ProbeFrom(_, _, _, _)
ProbeFrom(dir, t, output_file, counter) ==
    IF output_file \in fs_out
    THEN ProbeFrom(dir, t, OutFile(dir, t, counter), counter + 1)
    ELSE output_file

\* an output file name taken without looking at the directory
UniqueOutputFileUnprobed(dir, t) == OutFile(dir, t, 0)

\* the output file of a request made at timestamp t
UniqueOutputFile(dir, t) == ProbeFrom(dir, t, OutFile(dir, t, 0), 1)

(***************************************************************************)
(* The desktop shell.                                                      *)
(***************************************************************************)
\* the form as MulaSettings() fills it at start-up
DefaultForm ==
    [model_path |-> <<"ckpt">>, version |-> <<"3B">>, max_length |-> 240,
     topk |-> 50, temperature |-> 10, cfg_scale |-> 15,
     lyrics |-> <<"sample song">>, tags |-> <<"club house, female vocals">>,
     output_dir |-> <<"output">>, auto_open |-> TRUE]

\* the values a user may have put in the form when a request is made
Forms ==
    {DefaultForm,
     [DefaultForm EXCEPT !.model_path = <<"x/">>],
     [DefaultForm EXCEPT !.tags = <<" ", "Rock", ",", " ", "pop">>,
                         !.lyrics = <<"la">>, !.output_dir = <<"/ext">>,
                         !.max_length = 30, !.auto_open = FALSE]}

\* time_to_ms of the QTime that shows `seconds`
time_to_ms(seconds) == seconds * 1000

\* QTime(h, m, s)
QTime(h, m, s) == [hour |-> h, minute |-> m, second |-> s]

\* t.hour() * 3600 + t.minute() * 60 + t.second()
SecondsOf(t) == t.hour * 3600 + t.minute * 60 + t.second

\* int(round(ms / 1000.0)) for ms >= 0: round takes a half to the even side
RoundSeconds(ms) ==
    LET q == ms \div 1000
        r == ms % 1000
    IN  IF r < 500 THEN q
        ELSE IF r > 500 THEN q + 1
        ELSE IF q % 2 = 0 THEN q ELSE q + 1

\* ms_to_time(ms)
ms_to_time(ms) ==
    LET total_seconds == IF RoundSeconds(ms) > 1 THEN RoundSeconds(ms) ELSE 1
        h == total_seconds \div 3600
        m == (total_seconds % 3600) \div 60
        s == total_seconds % 60
    IN  QTime(h % 24, m, s)

\* save_settings: the record it builds from the widgets
SettingsOfForm(form) ==
    [model_path          |-> JStr(Strip(form.model_path)),
     version             |-> JStr(form.version),
     max_audio_length_ms |-> JInt(time_to_ms(form.max_length)),
     topk                |-> JInt(form.topk),
     temperature         |-> JFloat(form.temperature),
     cfg_scale           |-> JFloat(form.cfg_scale),
     lyrics_text         |-> JStr(form.lyrics),
     tags_text           |-> JStr(form.tags),
     output_dir          |-> JStr(Strip(form.output_dir)),
     auto_open_output    |-> JBool(form.auto_open)]

\* Path(output_dir.strip() or "output"), resolved against the root
OutputDir(output_dir) ==
    Resolve(IF Strip(output_dir) = <<>> THEN <<"output">> ELSE Strip(output_dir))

\* a scratch file: its path and the text it holds
ScratchFile(path, text) == [path |-> path, text |-> text]

\* a scratch file that does not exist
NoScratch == ScratchFile(<<>>, <<"(no file)">>)

\* a QProcess: q is QProcess.state(), os the state of the child itself
\* ("starting", "alive", "exited", "killed", "nostart"), code its exit code,
\* cmd the argument list of the child while there is one
NewProcess(cmd) == [q |-> "Starting", os |-> "starting", code |-> 0, cmd |-> cmd]

\* self.process, as an index into d_procs (0: None)
d_process == Len(d_procs)

\* the children of the desktop shell that run
DesktopChildren == {p \in 1..Len(d_procs) : d_procs[p].os = "alive"}

\* the timestamps datetime.now() may give a request
Timestamps == {0, 1}

\* the argument list of a child that is gone
NoCmd == [none |-> TRUE]

\* generate_music that saves the settings before it validates
DValidationFailedAfterSave(form, error) ==
    /\ d_dialog' = <<"Installation Error", error>>
    /\ d_settings' = SettingsOfForm(form)
    /\ fs_settings' = Save("desktop", d_settings')
    /\ UNCHANGED <<fs_install, fs_dirs, fs_out, fs_lyrics, fs_tags, d_procs,
                   d_btn, d_status, d_current_output_file, d_console, d_opened>>

\* generate_music, validation failed: the message box and nothing else
DValidationFailed(form, error) ==
    /\ d_dialog' = <<"Installation Error", error>>
    /\ UNCHANGED <<fsvars, d_settings, d_procs, d_btn, d_status,
                   d_current_output_file, d_console, d_opened>>

\* generate_music, the buttons and the status after process.start
GenerateUpdateUI ==
    /\ d_btn' = [d_btn EXCEPT !.generate = FALSE, !.stop = TRUE]
    /\ d_status' = <<"Generating music...">>

\* an argument list that names the two scratch files the wrong way round
DesktopCmdSwapped(form, lyrics_file, tags_file, output_file) ==
    [model_path |-> Resolve(Strip(form.model_path)),
     version |-> form.version,
     lyrics |-> tags_file,
     tags |-> lyrics_file,
     save_path |-> output_file,
     max_audio_length_ms |-> time_to_ms(form.max_length),
     topk |-> form.topk,
     temperature |-> form.temperature,
     cfg_scale |-> form.cfg_scale]

\* generate_music: the argument list, one field for each flag
DesktopCmd(form, lyrics_file, tags_file, output_file) ==
    [model_path |-> Resolve(Strip(form.model_path)),
     version |-> form.version,
     lyrics |-> lyrics_file,
     tags |-> tags_file,
     save_path |-> output_file,
     max_audio_length_ms |-> time_to_ms(form.max_length),
     topk |-> form.topk,
     temperature |-> form.temperature,
     cfg_scale |-> form.cfg_scale]

\* generate_music, validation passed, for the form form at timestamp t
DStartGeneration(form, t) ==
    LET output_dir == OutputDir(form.output_dir)
        output_file == UniqueOutputFile(output_dir, t)
        temp_dir == <<"root/", "presets/setsave/_mula_tmp">>
        lyrics_file == temp_dir \o <<"lyrics.txt">>
        tags_file == temp_dir \o <<"tags.txt">>
        cmd == DesktopCmd(form, lyrics_file, tags_file, output_file)
    IN  /\ Len(d_procs) < MaxRuns
        /\ d_settings' = SettingsOfForm(form)
        /\ fs_settings' = Save("desktop", d_settings')
        /\ fs_dirs' = fs_dirs \cup {output_dir, temp_dir}
        /\ fs_lyrics' = ScratchFile(lyrics_file, form.lyrics \o <<"\n">>)
        /\ fs_tags' = ScratchFile(tags_file, Strip(form.tags) \o <<"\n">>)
        /\ d_console' = <<"HEARTMULA GENERATION STARTED">>
        /\ d_procs' = Append(d_procs, NewProcess(cmd))
        /\ d_current_output_file' = output_file
        /\ GenerateUpdateUI
        /\ UNCHANGED <<fs_install, fs_out, d_dialog, d_opened>>

\* a click on the generate button with the form holding form, at
\* timestamp t: generate_music
DGenerateClick(form, t) ==
    /\ app = "desktop"
    /\ d_btn.generate
    /\ LET v == validate_installation(form.model_path) IN
        IF ~v.ok THEN DValidationFailed(form, v.error) ELSE DStartGeneration(form, t)
    /\ UNCHANGED <<app, bvars, svars, hvars>>

\* QProcess: the child has started
DProcessStarted(p) ==
    /\ app = "desktop"
    /\ d_procs[p].q = "Starting"
    /\ d_procs' = [d_procs EXCEPT ![p].q = "Running", ![p].os = "alive"]
    /\ UNCHANGED <<app, fsvars, d_settings, d_btn, d_status, d_dialog,
                   d_current_output_file, d_console, d_opened, bvars, svars, hvars>>

\* QProcess: the program could not be started (error FailedToStart); the
\* shell connects no slot to errorOccurred, and finished is not emitted
DProcessFailedToStart(p) ==
    /\ app = "desktop"
    /\ d_procs[p].q = "Starting"
    /\ d_procs' = [d_procs EXCEPT ![p].q = "NotRunning", ![p].os = "nostart",
                                  ![p].cmd = NoCmd]
    /\ UNCHANGED <<app, fsvars, d_settings, d_btn, d_status, d_dialog,
                   d_current_output_file, d_console, d_opened, bvars, svars, hvars>>

\* the child ends by itself with an exit code; it may leave its output file
DChildExit(p, code, wrote) ==
    /\ app = "desktop"
    /\ d_procs[p].os = "alive"
    /\ d_procs' = [d_procs EXCEPT ![p].os = "exited", ![p].code = code,
                                  ![p].cmd = NoCmd]
    /\ fs_out' = IF wrote THEN fs_out \cup {d_procs[p].cmd.save_path} ELSE fs_out
    /\ UNCHANGED <<app, fs_install, fs_dirs, fs_settings, fs_lyrics, fs_tags,
                   d_settings, d_btn, d_status, d_dialog,
                   d_current_output_file, d_console, d_opened, bvars, svars, hvars>>

\* on_process_finished: the buttons
FinishedButtons(exit_code) ==
    [generate |-> TRUE,
     stop |-> FALSE,
     play |-> \/ d_btn.play
              \/ /\ exit_code = 0
                 /\ d_current_output_file # NoFile
                 /\ d_current_output_file \in fs_out]

\* on_process_finished clears the recorded file on failure only
FinishedOutputFileKept(exit_code) == d_current_output_file

\* on_process_finished: self.current_output_file afterwards
FinishedOutputFile(exit_code) ==
    IF exit_code = 0 THEN d_current_output_file ELSE NoFile

\* on_process_finished(exit_code, exit_status)
on_process_finished(exit_code) ==
    /\ d_btn' = FinishedButtons(exit_code)
    /\ d_current_output_file' = FinishedOutputFile(exit_code)
    /\ IF exit_code = 0
       THEN /\ d_console' = Append(d_console, "GENERATION COMPLETE")
            /\ d_status' = <<"Generation complete!">>
            /\ d_dialog' = <<"Success", d_current_output_file>>
       ELSE /\ d_console' = Append(d_console, "[PROCESS EXITED WITH CODE]")
            /\ d_status' = <<"Generation failed", exit_code>>
            /\ d_dialog' = <<"Generation Failed", exit_code>>

\* QProcess notices that the child is gone and emits finished
DProcessFinished(p) ==
    /\ app = "desktop"
    /\ d_procs[p].q = "Running"
    /\ d_procs[p].os \in {"exited", "killed"}
    /\ d_procs' = [d_procs EXCEPT ![p].q = "NotRunning"]
    /\ on_process_finished(d_procs[p].code)
    /\ UNCHANGED <<app, fsvars, d_settings, d_opened, bvars, svars, hvars>>

\* the stop clicks that reached kill() since the console was cleared
Stops == Cardinality({i \in 1..Len(d_console) :
                         d_console[i] = "[PROCESS TERMINATED BY USER]"})

\* a kill that does not reach the child
KillIgnored(proc) == proc

\* QProcess.kill(): a child that runs dies of the signal, exit code 9
Kill(proc) ==
    IF proc.os = "alive"
    THEN [proc EXCEPT !.os = "killed", !.code = 9, !.cmd = NoCmd]
    ELSE proc

\* a click on the stop button: stop_generation
DStopClick ==
    /\ app = "desktop"
    /\ d_btn.stop
    /\ IF d_process # 0 /\ d_procs[d_process].q = "Running"
       THEN /\ Stops < MaxStops
            /\ d_procs' = [d_procs EXCEPT ![d_process] = Kill(d_procs[d_process])]
            /\ d_console' = Append(d_console, "[PROCESS TERMINATED BY USER]")
       ELSE UNCHANGED <<d_procs, d_console>>
    /\ UNCHANGED <<app, fsvars, d_settings, d_btn, d_status, d_dialog,
                   d_current_output_file, d_opened, bvars, svars, hvars>>

\* a click on the play button: play_output
DPlayClick ==
    /\ app = "desktop"
    /\ d_btn.play
    /\ IF d_current_output_file # NoFile /\ d_current_output_file \in fs_out
       THEN /\ Len(d_opened) < MaxOpens
            /\ d_opened' = Append(d_opened, d_current_output_file)
            /\ UNCHANGED d_dialog
       ELSE /\ d_dialog' = <<"No Audio">>
            /\ UNCHANGED d_opened
    /\ UNCHANGED <<app, fsvars, d_settings, d_procs, d_btn, d_status,
                   d_current_output_file, d_console, bvars, svars, hvars>>

DesktopNext ==
    \/ \E form \in Forms, t \in Timestamps : DGenerateClick(form, t)
    \/ \E p \in 1..Len(d_procs) : DProcessStarted(p)
    \/ \E p \in 1..Len(d_procs) : DProcessFailedToStart(p)
    \/ \E p \in 1..Len(d_procs), code \in {0, 1}, wrote \in BOOLEAN :
          DChildExit(p, code, wrote)
    \/ \E p \in 1..Len(d_procs) : DProcessFinished(p)
    \/ DStopClick
    \/ DPlayClick

(***************************************************************************)
(* The browser shell.                                                      *)
(***************************************************************************)
Sessions == 1..NumSessions

\* the inputs of generate_music a user submits
BrowserForms ==
    {[model_path |-> f.model_path, version |-> f.version, tags |-> f.tags,
      lyrics |-> f.lyrics, max_length_sec |-> f.max_length, topk |-> f.topk,
      temperature |-> f.temperature, cfg_scale |-> f.cfg_scale,
      output_dir |-> f.output_dir] : f \in Forms}

NoRequest == [none |-> TRUE]
NoRecord == [none |-> TRUE]
NoResult == [none |-> TRUE]

\* the file the child writes for --save_path: "." is the root, the cwd of
\* the child; an output file outside the root is named by .\output\<name>
CliOutputFile(output_file) ==
    IF output_file.dir[1] = "root/"
    THEN output_file
    ELSE [output_file EXCEPT !.dir = <<"root/", "output">>]

\* the children of the browser shell that run
BrowserChildren == {p \in 1..Len(b_procs) : b_procs[p].os = "alive"}

\* generate_btn.click(fn=generate_music, ...): the listener is registered
\* without a concurrency limit of its own, so the queue of the framework
\* runs one call of it at a time
ListenerFree == \A s \in Sessions : b_pc[s] = "idle"

\* generate_music returns (audio, status) to the session
BReturn(s, audio, status) ==
    /\ b_audio' = [b_audio EXCEPT ![s] = audio]
    /\ b_status' = [b_status EXCEPT ![s] = status]
    /\ b_pc' = [b_pc EXCEPT ![s] = "idle"]
    /\ b_req' = [b_req EXCEPT ![s] = NoRequest]

\* generate_music: the argument list, one field for each flag; the child runs
\* in the root, so "." in a path is the root
BrowserCmd(f, output_file) ==
    [model_path |-> <<"root/", "ckpt">>,
     version |-> f.version,
     lyrics |-> <<"root/", "assets", "lyrics.txt">>,
     tags |-> <<"root/", "assets", "tags.txt">>,
     save_path |-> CliOutputFile(output_file),
     max_audio_length_ms |-> f.max_length_sec * 1000,
     topk |-> f.topk,
     temperature |-> f.temperature,
     cfg_scale |-> f.cfg_scale]

\* generate_music from its start to Popen, for the inputs f at timestamp t;
\* launched: whether Popen starts the child or raises
BGenerate(s, f, t, launched) ==
    /\ app = "browser"
    /\ b_pc[s] = "idle"
    /\ ListenerFree
    /\ LET v == validate_installation(f.model_path)
           out_dir == OutputDir(f.output_dir)
           output_file == UniqueOutputFile(out_dir, t)
           assets_dir == <<"root/", "assets">>
           formatted_tags == format_tags_for_file(f.tags)
           cmd == BrowserCmd(f, output_file)
       IN  IF ~v.ok
           THEN /\ BReturn(s, NoFile, <<"Installation Error", v.error>>)
                /\ UNCHANGED <<fsvars, b_procs>>
           ELSE /\ fs_dirs' = fs_dirs \cup {out_dir, assets_dir}
                /\ fs_lyrics' = ScratchFile(assets_dir \o <<"lyrics.txt">>,
                                            f.lyrics \o <<"\n">>)
                /\ fs_tags' = ScratchFile(assets_dir \o <<"tags.txt">>,
                                          formatted_tags \o <<"\n">>)
                /\ UNCHANGED <<fs_install, fs_out, fs_settings>>
                /\ IF launched
                   THEN /\ Len(b_procs) < MaxRuns
                        /\ b_procs' = Append(b_procs,
                               [os |-> "alive", code |-> 0, cmd |-> cmd])
                        /\ b_pc' = [b_pc EXCEPT ![s] = "running"]
                        /\ b_req' = [b_req EXCEPT ![s] =
                               [output_file |-> output_file,
                                process |-> Len(b_procs) + 1]]
                        /\ UNCHANGED <<b_audio, b_status>>
                   ELSE /\ BReturn(s, NoFile, <<"Error during generation">>)
                        /\ UNCHANGED b_procs
    /\ UNCHANGED <<app, dvars, svars, hvars>>

\* the child ends with an exit code; it may leave its output file
BChildExit(p, code, wrote) ==
    /\ app = "browser"
    /\ b_procs[p].os = "alive"
    /\ b_procs' = [b_procs EXCEPT ![p].os = "exited", ![p].code = code,
                                  ![p].cmd = NoCmd]
    /\ fs_out' = IF wrote THEN fs_out \cup {b_procs[p].cmd.save_path} ELSE fs_out
    /\ UNCHANGED <<app, fs_install, fs_dirs, fs_settings, fs_lyrics, fs_tags,
                   b_pc, b_req, b_audio, b_status, dvars, svars, hvars>>

\* a result that takes return code 0 for success without looking for the file
BResultIgnoringFile(output_file, returncode) ==
    IF returncode = 0
    THEN <<output_file, <<"Success", output_file>>>>
    ELSE <<NoFile, <<"Generation failed", returncode>>>>

\* generate_music after process.wait(): what it returns for the return code
BResult(output_file, returncode) ==
    IF returncode = 0
    THEN IF output_file \in fs_out
         THEN <<output_file, <<"Success", output_file>>>>
         ELSE <<NoFile, <<"Process completed but output file not found", output_file>>>>
    ELSE <<NoFile, <<"Generation failed", returncode>>>>

\* generate_music from the end of the child's output to its return
BFinish(s) ==
    /\ app = "browser"
    /\ b_pc[s] = "running"
    /\ b_procs[b_req[s].process].os = "exited"
    /\ LET r == BResult(b_req[s].output_file, b_procs[b_req[s].process].code)
       IN  BReturn(s, r[1], r[2])
    /\ UNCHANGED <<app, fsvars, b_procs, dvars, svars, hvars>>

\* generate_music, an exception while it reads the child's output (a line
\* that does not decode): the except clause returns, the child is left as is
BReadError(s) ==
    /\ app = "browser"
    /\ b_pc[s] = "running"
    /\ BReturn(s, NoFile, <<"Error during generation">>)
    /\ UNCHANGED <<app, fsvars, b_procs, dvars, svars, hvars>>

BrowserNext ==
    \/ \E s \in Sessions, f \in BrowserForms, t \in Timestamps, launched \in BOOLEAN :
          BGenerate(s, f, t, launched)
    \/ \E p \in 1..Len(b_procs), code \in {0, 1}, wrote \in BOOLEAN :
          BChildExit(p, code, wrote)
    \/ \E s \in Sessions : BFinish(s)
    \/ \E s \in Sessions : BReadError(s)

(***************************************************************************)
(* The shells as a state machine.                                          *)
(***************************************************************************)
\* an installation that validate_installation accepts for model_path "ckpt"
FullInstall ==
    {<<"root/", "ckpt">>, ScriptPath}
        \cup {<<"root/", "ckpt", RequiredNames[i]>> : i \in 1..4}

\* an installation whose model is in the directory x/ of the root, the
\* directory ckpt that ensure_dirs made being empty
OtherInstall ==
    {<<"root/", "ckpt">>, <<"root/", "x/">>, ScriptPath}
        \cup {<<"root/", "x/", RequiredNames[i]>> : i \in 1..4}

\* the installations the shells may find: ensure_dirs has made the model
\* directory, any of the required sub-paths and the script may be missing
Installations ==
    {inst \in SUBSET FullInstall : <<"root/", "ckpt">> \in inst}
        \cup {OtherInstall}

\* the file system and both shells after start-up; ensure_dirs has made the
\* model and output directories, no settings file exists yet
AppStart ==
    /\ fs_dirs = {<<"root/", "output">>}
    /\ fs_out = {}
    /\ fs_settings = Absent
    /\ fs_lyrics = NoScratch
    /\ fs_tags = NoScratch
    /\ d_settings = DesktopDefaults
    /\ d_procs = <<>>
    /\ d_btn = [generate |-> TRUE, stop |-> FALSE, play |-> FALSE]
    /\ d_status = <<"Ready">>
    /\ d_dialog = <<"none">>
    /\ d_current_output_file = NoFile
    /\ d_console = <<>>
    /\ d_opened = <<>>
    /\ b_pc = [s \in Sessions |-> "idle"]
    /\ b_req = [s \in Sessions |-> NoRequest]
    /\ b_audio = [s \in Sessions |-> NoFile]
    /\ b_status = [s \in Sessions |-> <<"">>]
    /\ b_procs = <<>>

\* the settings harness at rest
SettingsIdle ==
    /\ s_file = Absent
    /\ s_rec = NoRecord
    /\ s_result = NoResult
    /\ s_pc = "init"

\* no child output has been written or read
OutputIdle ==
    /\ o_written = <<>>
    /\ o_unread = <<>>
    /\ o_log = <<>>
    /\ o_eof = FALSE

\* no preset manager has loaded anything
PresetIdle ==
    /\ p_file = NoPresetFile
    /\ p_data = DictOf(<<>>)
    /\ p_rets = <<>>
    /\ p_found = <<>>
    /\ p_query = NoQuery

\* no duration is shown
TimeIdle ==
    /\ t_ms = 0
    /\ t_time = <<>>
    /\ t_saved = <<>>

HarnessIdle == OutputIdle /\ PresetIdle /\ TimeIdle

Init ==
    /\ app \in Shells
    /\ fs_install \in Installations
    /\ AppStart
    /\ SettingsIdle
    /\ HarnessIdle

Next == DesktopNext \/ BrowserNext

vars == <<app, appvars, svars, hvars>>

Spec == Init /\ [][Next]_vars

\* the event loop delivers pending events, and a running child ends
Fairness ==
    /\ WF_vars(\E p \in 1..Len(d_procs) : DProcessStarted(p) \/ DProcessFailedToStart(p))
    /\ WF_vars(\E p \in 1..Len(d_procs), code \in {0, 1}, wrote \in BOOLEAN :
                  DChildExit(p, code, wrote))
    /\ WF_vars(\E p \in 1..Len(d_procs) : DProcessFinished(p))
    /\ WF_vars(\E p \in 1..Len(b_procs), code \in {0, 1}, wrote \in BOOLEAN :
                  BChildExit(p, code, wrote))
    /\ WF_vars(\E s \in Sessions : BFinish(s))

FairSpec == Spec /\ Fairness

\* the desktop shell alone, with the fairness of its event loop
DesktopInit == Init /\ app = "desktop"

DesktopFairness ==
    /\ WF_vars(\E p \in 1..Len(d_procs) : DProcessStarted(p) \/ DProcessFailedToStart(p))
    /\ WF_vars(\E p \in 1..Len(d_procs), code \in {0, 1}, wrote \in BOOLEAN :
                  DChildExit(p, code, wrote))
    /\ WF_vars(\E p \in 1..Len(d_procs) : DProcessFinished(p))

FairDesktopSpec == DesktopInit /\ [][DesktopNext]_vars /\ DesktopFairness

\* each shell alone
DesktopSpec == DesktopInit /\ [][DesktopNext]_vars

BrowserInit == Init /\ app = "browser"

BrowserSpec == BrowserInit /\ [][BrowserNext]_vars

(***************************************************************************)
(* The settings store as a state machine: a settings file of one shell,    *)
(* which that shell saves to and loads from.                               *)
(*   s_file    the content of the settings file                            *)
(*   s_rec     the record of the last save, NoRecord before any save       *)
(*   s_result  the outcome of the last load, NoResult before any load      *)
(*   s_pc      "init", "saved" (save was last), "loaded" (load of a file   *)
(*             not written by save), "reloaded" (load of a saved file)     *)
(***************************************************************************)

\* model_path texts found in hand-written or legacy settings files
SamplePaths ==
    {<<"ckpt">>, <<"x/">>, <<"models/", "HeartMuLa">>,
     <<"models/", "HeartMuLa", "x/">>,
     <<"x/", "Models/", "heartmula">>, <<"HeartMuLa", "models/">>}

\* members a settings file found on disk may hold
MemberPool ==
    {<<"model_path", JStr(p)>> : p \in SamplePaths}
        \cup {<<"model_path", JInt(5)>>,
              <<"topk", JInt(7)>>,
              <<"output_dir", JStr(<<"x/">>)>>,
              <<"bogus", JStr(<<"x/">>)>>}

\* the contents a settings file found on disk may have
FileContents ==
    {Absent, InvalidJson, NonObjectJson}
        \cup {Object(ms) : ms \in UNION {[1..k -> MemberPool] : k \in 0..MaxMembers}}

\* the records a shell may hold when it saves
Records(shell) ==
    {[Defaults(shell) EXCEPT !["model_path"] = JStr(p), !["topk"] = k] :
        p \in TextsUpTo(MaxPathLen) \cup SamplePaths, k \in {JInt(50), JInt(1)}}

SettingsInit ==
    /\ app \in Shells
    /\ fs_install = FullInstall
    /\ AppStart
    /\ s_file \in FileContents
    /\ s_rec = NoRecord
    /\ s_result = NoResult
    /\ s_pc = "init"
    /\ HarnessIdle

\* settings.save(settings_path())
SSave(rec) ==
    /\ s_file' = Save(app, rec)
    /\ s_rec' = rec
    /\ s_result' = NoResult
    /\ s_pc' = "saved"
    /\ UNCHANGED <<app, appvars, hvars>>

\* MulaSettings.load(settings_path())
SLoad ==
    /\ s_result' = Load(app, s_file)
    /\ s_pc' = IF s_pc \in {"saved", "reloaded"} THEN "reloaded" ELSE "loaded"
    /\ UNCHANGED <<app, s_file, s_rec, appvars, hvars>>

SettingsNext ==
    \/ \E rec \in Records(app) : SSave(rec)
    \/ SLoad


SettingsSpec == SettingsInit /\ [][SettingsNext]_vars

(***************************************************************************)
(* Claims about the generation state machine (Spec, FairSpec).             *)
(***************************************************************************)
\* C1: in both shells at most one child generation process exists at any
\* time.
C1_AtMostOneChild ==
    /\ Cardinality(DesktopChildren) <= 1
    /\ Cardinality(BrowserChildren) <= 1

\* C2: every generation request eventually returns the shell to Idle with
\* the generate control usable again, however the child ends, including when
\* it fails to start.
C2_EveryRequestReturnsToIdle ==
    /\ (d_status = <<"Generating music...">>) ~> d_btn.generate
    /\ \A s \in Sessions : (b_pc[s] = "running") ~> (b_pc[s] = "idle")

\* C3: after a child exited with a nonzero code no output path stays
\* recorded: current_output_file is None and a play click opens no file in
\* the desktop shell, the returned audio path is None in the browser shell.
C3_FailureClearsOutput ==
    /\ [](/\ d_status[1] = "Generation failed" => d_current_output_file = NoFile
          /\ \A s \in Sessions :
                b_status[s][1] = "Generation failed" => b_audio[s] = NoFile)
    /\ [][(d_status[1] = "Generation failed" /\ DPlayClick)
             => (d_opened' = d_opened /\ d_dialog' = <<"No Audio">>)]_vars

\* a run succeeded, a later run failed, and play was clicked after it
C3_Witness ==
    /\ d_status[1] = "Generation failed"
    /\ d_btn.play
    /\ d_current_output_file = NoFile
    /\ d_dialog = <<"No Audio">>
    /\ fs_out # {}

\* self.process is a child that stop killed
StopKilled == d_process # 0 /\ d_procs[d_process].os = "killed"

\* C4: in the desktop shell a stop request while the child runs kills the
\* child, and the shell then reaches a terminal state without success and
\* is Idle again: generate enabled, stop disabled, no success reported.
C4_StopEndsInIdle ==
    /\ [][(DStopClick /\ d_process # 0 /\ d_procs[d_process].q = "Running"
              /\ d_procs[d_process].os = "alive") => StopKilled']_vars
    /\ (StopKilled /\ d_procs[d_process].q = "Running")
          ~> (/\ StopKilled
              /\ d_procs[d_process].q = "NotRunning"
              /\ d_btn.generate
              /\ ~d_btn.stop
              /\ d_status[1] \notin {"Generating music...", "Generation complete!"}
              /\ d_dialog[1] # "Success")

\* the child was killed by stop and the shell is Idle again
C4_Witness ==
    /\ StopKilled
    /\ d_procs[d_process].q = "NotRunning"
    /\ d_btn.generate
    /\ ~d_btn.stop

\* C5: a cancellation the user asked for ends in a Cancelled outcome that is
\* not Failed: no failure status and no failure dialog.
C5_CancelIsNotFailure ==
    (StopKilled /\ d_procs[d_process].q = "NotRunning") =>
        /\ d_status[1] # "Generation failed"
        /\ d_dialog[1] # "Generation Failed"

\* a generate request whose installation validation fails, in either shell
FailedValidationStep ==
    \/ /\ app = "desktop"
       /\ d_dialog'[1] = "Installation Error"
       /\ \E form \in Forms :
             /\ ~validate_installation(form.model_path).ok
             /\ \E t \in Timestamps : DGenerateClick(form, t)
    \/ /\ app = "browser"
       /\ \E s \in Sessions :
             /\ b_status'[s][1] = "Installation Error"
             /\ \E f \in BrowserForms :
                   /\ ~validate_installation(f.model_path).ok
                   /\ \E t \in Timestamps, launched \in BOOLEAN :
                         BGenerate(s, f, t, launched)

\* C6 as stated: a request whose validation fails spawns no child and
\* changes nothing: settings file, scratch files, output directory, recorded
\* output path and the generate and stop controls are as before.
C6_FailedValidationChangesNothing ==
    [][FailedValidationStep =>
          UNCHANGED <<fs_settings, fs_lyrics, fs_tags, fs_dirs, fs_out,
                      d_procs, b_procs, d_current_output_file, b_audio,
                      d_btn>>]_vars

\* C6 amended: the same, except that in the browser shell the audio output
\* of the request is None, whatever an earlier request had returned.
C6_FailedValidationWritesNothing ==
    [][FailedValidationStep =>
          /\ UNCHANGED <<fs_settings, fs_lyrics, fs_tags, fs_dirs, fs_out,
                         d_procs, b_procs, d_current_output_file, d_btn>>
          /\ \A s \in Sessions : b_audio'[s] \in {b_audio[s], NoFile}
          /\ app = "browser" =>
                \E s \in Sessions : b_audio'[s] = NoFile /\ b_pc'[s] = "idle"]_vars

\* validation failed for a request made after a run had succeeded
C6_Witness ==
    /\ d_dialog[1] = "Installation Error"
    /\ d_current_output_file # NoFile
    /\ d_btn.play
    /\ fs_settings # Absent

\* C7: in both shells, when the child cannot be started the request ends
\* with a failure status shown to the user and no success is reported.
C7_LaunchFailureIsReported ==
    /\ []((d_process # 0 /\ d_procs[d_process].os = "nostart")
            => d_status[1] = "Generation failed")
    /\ [][\A s \in Sessions :
            (\E f \in BrowserForms, t \in Timestamps :
                /\ validate_installation(f.model_path).ok
                /\ BGenerate(s, f, t, FALSE))
            => (b_status'[s] = <<"Error during generation">>
                /\ b_audio'[s] = NoFile)]_vars

(***************************************************************************)
(* Claims about the settings store (checked under SettingsSpec).           *)
(***************************************************************************)
Loaded == s_pc \in {"loaded", "reloaded"}

\* a text that names a legacy model folder: "models/heartmula" occurs in it
\* when case is ignored
NamesLegacyFolder(text) ==
    \E i \in 1..(Len(text) - 1) :
        /\ LowerTok(text[i]) = "models/"
        /\ LowerTok(text[i + 1]) = "heartmula"

\* C8: in both shells load never raises, and for a file that is absent, is
\* not valid JSON or cannot be turned into a record it returns the defaults.
C8_LoadNeverRaises ==
    Loaded =>
        /\ s_result.ok
        /\ (\/ s_file.kind \in {"absent", "invalid", "nonobject"}
            \/ /\ s_file.kind = "object"
               /\ "model_path" \in Keys(s_file.members)
               /\ DictOf(s_file.members)["model_path"].t # "str")
           => s_result.rec = Defaults(app)

\* C9 as stated: save(r) then load returns a record equal to r in every field.
C9_RoundTripExact ==
    s_pc = "reloaded" => s_result = Returned(s_rec)

\* C9 amended: save(r) then load returns r in every field, except that a
\* model_path naming a legacy model folder comes back as "ckpt".
C9_RoundTripUpToMigration ==
    s_pc = "reloaded" =>
        s_result = Returned(IF NamesLegacyFolder(s_rec["model_path"].v)
                            THEN [s_rec EXCEPT !["model_path"] = JStr(<<"ckpt">>)]
                            ELSE s_rec)

\* a saved record that differs from the defaults was loaded back unchanged
C9_Witness ==
    /\ s_pc = "reloaded"
    /\ s_rec["model_path"] = JStr(<<"x/", "ckpt">>)
    /\ s_rec["topk"] = JInt(1)
    /\ s_result = Returned(s_rec)

\* the record C10 describes for a JSON object: a recognised key has the
\* file's value, a missing one its default, other keys count for nothing
FileValues(shell, ms) ==
    [f \in FieldSet(shell) |->
        IF f \in Keys(ms) THEN DictOf(ms)[f] ELSE Defaults(shell)[f]]

\* C10 as stated: for a valid JSON object every recognised field present has
\* the file's value, every absent one its default, unknown keys are ignored.
C10_LoadTakesFileValues ==
    (s_pc = "loaded" /\ s_file.kind = "object") =>
        s_result = Returned(FileValues(app, s_file.members))

\* C10 amended: the same for an object whose model_path, when present, is a
\* string, except that a model_path naming a legacy folder is returned as
\* "ckpt"; in the browser shell an object whose model_path is not a string
\* loads as the defaults.
C10_LoadTakesFileValuesUpToMigration ==
    (s_pc = "loaded" /\ s_file.kind = "object") =>
        LET want == FileValues(app, s_file.members) IN
        /\ want["model_path"].t = "str" =>
              s_result = Returned(IF NamesLegacyFolder(want["model_path"].v)
                                  THEN [want EXCEPT !["model_path"] = JStr(<<"ckpt">>)]
                                  ELSE want)
        /\ (want["model_path"].t # "str" /\ app = "browser") =>
              s_result = Returned(Defaults(app))

\* a file with an unknown key and a recognised one was loaded
C10_Witness ==
    /\ s_pc = "loaded"
    /\ s_file = Object(<<<<"bogus", JStr(<<"x/">>)>>, <<"topk", JInt(7)>>>>)
    /\ s_result.ok
    /\ s_result.rec["topk"] = JInt(7)
    /\ s_result.rec["model_path"] = JStr(<<"ckpt">>)

\* C11: load of a file whose model_path names a legacy folder, such as
\* "models/HeartMuLa/foo", returns a record whose model_path is "ckpt" and
\* whose other recognised fields are the file's, unchanged.
C11_LegacyPathMigrated ==
    (/\ s_pc = "loaded"
     /\ s_file.kind = "object"
     /\ "model_path" \in Keys(s_file.members)
     /\ DictOf(s_file.members)["model_path"].t = "str"
     /\ NamesLegacyFolder(DictOf(s_file.members)["model_path"].v)) =>
        /\ s_result.ok
        /\ s_result.rec["model_path"] = JStr(<<"ckpt">>)
        /\ \A f \in FieldSet(app) \ {"model_path"} :
              s_result.rec[f] = FileValues(app, s_file.members)[f]

\* a file with the legacy path "models/HeartMuLa/foo" and a topk of its own
\* was loaded
C11_Witness ==
    /\ s_pc = "loaded"
    /\ s_file = Object(<<<<"model_path", JStr(<<"models/", "HeartMuLa", "x/">>)>>,
                         <<"topk", JInt(7)>>>>)
    /\ s_result.ok
    /\ s_result.rec["model_path"] = JStr(<<"ckpt">>)
    /\ s_result.rec["topk"] = JInt(7)

\* C12: in each shell every generation request, whether or not validation
\* passes, leaves the shell's settings file holding the form values the
\* request was made with.
C12_EveryRequestSavesSettings ==
    [][/\ \A form \in Forms :
            (\E t \in Timestamps : DGenerateClick(form, t)) =>
                fs_settings' = Save("desktop", SettingsOfForm(form))
       /\ \A s \in Sessions, f \in BrowserForms :
            (\E t \in Timestamps, launched \in BOOLEAN : BGenerate(s, f, t, launched)) =>
                fs_settings' = Save("browser",
                    [model_path           |-> JStr(Strip(f.model_path)),
                     version              |-> JStr(f.version),
                     max_audio_length_sec |-> JInt(f.max_length_sec),
                     topk                 |-> JInt(f.topk),
                     temperature          |-> JFloat(f.temperature),
                     cfg_scale            |-> JFloat(f.cfg_scale),
                     output_dir           |-> JStr(Strip(f.output_dir))])]_vars

\* the required sub-paths of a model directory, in their fixed order
RequiredOf(model_dir) == [i \in 1..4 |-> model_dir \o <<RequiredNames[i]>>]

\* C13: validate_installation fails with "directory not found" when the
\* resolved model directory does not exist; otherwise, when required
\* sub-paths are missing, it fails with a message that lists exactly the
\* missing ones, all of them, in the fixed order; otherwise it fails when the
\* script is missing; it returns (True, "") exactly when all of them exist.
C13_ValidationOrder ==
    \A form \in Forms :
        LET model_dir == Resolve(Strip(form.model_path))
            req == RequiredOf(model_dir)
            gone == {i \in 1..4 : req[i] \notin fs_install}
            r == validate_installation(form.model_path)
        IN  /\ model_dir \notin fs_install =>
                r = [ok |-> FALSE,
                     error |-> <<"Model directory not found", <<model_dir>>>>]
            /\ (model_dir \in fs_install /\ gone # {}) =>
                /\ ~r.ok
                /\ r.error[1] = "Missing model files"
                /\ Len(r.error[2]) = Cardinality(gone)
                /\ \A i \in gone : \E k \in 1..Len(r.error[2]) : r.error[2][k] = req[i]
                /\ \A k, l \in 1..Len(r.error[2]) :
                      k < l => \E i, j \in gone :
                                  i < j /\ r.error[2][k] = req[i] /\ r.error[2][l] = req[j]
            /\ (model_dir \in fs_install /\ gone = {} /\ ScriptPath \notin fs_install) =>
                /\ ~r.ok
                /\ r.error[1] = "Generation script not found"
            /\ r.ok <=> (model_dir \in fs_install /\ gone = {} /\ ScriptPath \in fs_install)
            /\ r.ok => r.error = <<"", <<>>>>

\* a request was refused with a message listing two missing sub-paths, when
\* the script is missing as well
C13_Witness ==
    /\ fs_install = {<<"root/", "ckpt">>, <<"root/", "ckpt", "HeartMuLa-oss-3B">>,
                     <<"root/", "ckpt", "gen_config.json">>}
    /\ d_dialog = <<"Installation Error",
                    <<"Missing model files",
                      <<<<"root/", "ckpt", "HeartCodec-oss">>,
                        <<"root/", "ckpt", "tokenizer.json">>>>>>>>
    /\ d_procs = <<>>

\* file is the first of heartmula_T.mp3, heartmula_T_1.mp3, ... in dir that
\* does not exist
FirstFree(file, dir, t) ==
    /\ file = OutFile(dir, t, file.k)
    /\ file \notin fs_out
    /\ \A j \in 0..(file.k - 1) : OutFile(dir, t, j) \in fs_out

\* C14: the output file chosen for a request with timestamp T is the first
\* of heartmula_T.mp3, heartmula_T_1.mp3, heartmula_T_2.mp3, ... that does
\* not exist in the resolved output directory when the request probes; it
\* never names a file that existed then.
C14_FirstFreeName ==
    [][/\ Len(d_procs') > Len(d_procs) =>
            \A form \in Forms, t \in Timestamps :
                DGenerateClick(form, t) =>
                    FirstFree(d_current_output_file', OutputDir(form.output_dir), t)
       /\ Len(b_procs') > Len(b_procs) =>
            \A s \in Sessions, f \in BrowserForms, t \in Timestamps :
                BGenerate(s, f, t, TRUE) =>
                    FirstFree(b_req'[s].output_file, OutputDir(f.output_dir), t)]_vars

\* only heartmula_T.mp3 existed and the request was given heartmula_T_1.mp3
C14_Witness ==
    /\ d_current_output_file = OutFile(<<"root/", "output">>, 0, 1)
    /\ d_status = <<"Generating music...">>
    /\ fs_out = {OutFile(<<"root/", "output">>, 0, 0)}

\* the children that are in flight: started, or being started, and not yet
\* gone
InFlight ==
    {<<"desktop", p>> : p \in {i \in 1..Len(d_procs) :
                                  d_procs[i].os \in {"starting", "alive"}}}
        \cup {<<"browser", p>> : p \in BrowserChildren}

\* C15: two invocations that are in flight together have different output
\* files: no two children are given the same --save_path to write.
C15_DistinctSavePaths ==
    /\ \A p, q \in 1..Len(d_procs) :
          (<<"desktop", p>> \in InFlight /\ <<"desktop", q>> \in InFlight /\ p # q)
              => d_procs[p].cmd.save_path # d_procs[q].cmd.save_path
    /\ \A p, q \in 1..Len(b_procs) :
          (<<"browser", p>> \in InFlight /\ <<"browser", q>> \in InFlight /\ p # q)
              => b_procs[p].cmd.save_path # b_procs[q].cmd.save_path

\* C16: the scratch files a child reads hold the text of the request that
\* spawned it: no request writes them while a child is in flight.
C16_ScratchFilesStable ==
    [][InFlight # {} => UNCHANGED <<fs_lyrics, fs_tags>>]_vars

\* the last element of a text
LastOf(text) == text[Len(text)]

\* the scratch files hold the lyrics of the request and some tags text, each
\* ending in a newline, and the argument list cmd names them
ScratchReady(cmd, lyrics) ==
    /\ fs_lyrics'.text = lyrics \o <<"\n">>
    /\ LastOf(fs_tags'.text) = "\n"
    /\ fs_lyrics'.path # fs_tags'.path
    /\ cmd.lyrics = fs_lyrics'.path
    /\ cmd.tags = fs_tags'.path

C18_TagsNormalised ==
    [][fs_tags' # fs_tags =>
          /\ \A form \in Forms, t \in Timestamps :
                DGenerateClick(form, t) =>
                    fs_tags'.text = format_tags_for_file(form.tags) \o <<"\n">>
          /\ \A s \in Sessions, f \in BrowserForms, t \in Timestamps, launched \in BOOLEAN :
                BGenerate(s, f, t, launched) =>
                    fs_tags'.text = format_tags_for_file(f.tags) \o <<"\n">>]_vars

\* C19: every flag value of the argument list given to the script is the
\* value of the request: --model_path the resolved model directory that
\* validation checked, --version, --topk, --temperature and --cfg_scale the
\* request's values, --max_audio_length_ms its duration in milliseconds.
C19_FlagsAreTheRequest ==
    [][/\ Len(d_procs') > Len(d_procs) =>
            \A form \in Forms, t \in Timestamps :
                DGenerateClick(form, t) =>
                    LET cmd == d_procs'[Len(d_procs')].cmd IN
                    /\ cmd.model_path = Resolve(Strip(form.model_path))
                    /\ cmd.version = form.version
                    /\ cmd.topk = form.topk
                    /\ cmd.temperature = form.temperature
                    /\ cmd.cfg_scale = form.cfg_scale
                    /\ cmd.max_audio_length_ms = form.max_length * 1000
       /\ Len(b_procs') > Len(b_procs) =>
            \A s \in Sessions, f \in BrowserForms, t \in Timestamps :
                BGenerate(s, f, t, TRUE) =>
                    LET cmd == b_procs'[Len(b_procs')].cmd IN
                    /\ cmd.model_path = Resolve(Strip(f.model_path))
                    /\ cmd.version = f.version
                    /\ cmd.topk = f.topk
                    /\ cmd.temperature = f.temperature
                    /\ cmd.cfg_scale = f.cfg_scale
                    /\ cmd.max_audio_length_ms = f.max_length_sec * 1000]_vars

\* C20: in the desktop shell a run whose child exited with code 0 is
\* reported as success (status, dialog) only if the recorded output file
\* exists on disk.
C20_SuccessOnlyWithFile ==
    /\ d_status = <<"Generation complete!">> => d_current_output_file \in fs_out
    /\ d_dialog[1] = "Success" => d_dialog[2] \in fs_out

(***************************************************************************)
(* The output of a child on its way into the log.                          *)
(*   o_written  the characters the child has written so far                *)
(*   o_unread   the characters that arrived and were not yet read          *)
(*   o_log      the entries appended to the log (the console of the        *)
(*              desktop shell, output_lines of the browser shell)          *)
(*   o_eof      the child has closed its output                            *)
(***************************************************************************)
\* the characters a child writes: a letter and the line end
OutputChars == {"a", "\n"}

\* the position of the first line end of data, 0 when it has none
FirstLineEnd(data) ==
    IF \A i \in 1..Len(data) : data[i] # "\n"
    THEN 0
    ELSE CHOOSE i \in 1..Len(data) :
             data[i] = "\n" /\ \A j \in 1..(i - 1) : data[j] # "\n"

\* str.splitlines(): the lines of data without their line ends
RECURSIVE splitlines(_)
splitlines(data) ==
    IF data = <<>> THEN <<>>
    ELSE IF FirstLineEnd(data) = 0 THEN <<data>>
    ELSE <<SubSeq(data, 1, FirstLineEnd(data) - 1)>>
            \o splitlines(SubSeq(data, FirstLineEnd(data) + 1, Len(data)))

\* str.rstrip(): the text without its trailing blanks and line ends
RECURSIVE rstrip(_)
rstrip(line) ==
    IF line # <<>> /\ line[Len(line)] \in {" ", "\n"}
    THEN rstrip(SubSeq(line, 1, Len(line) - 1))
    ELSE line

\* the child writes one character
OChildWrite(c) ==
    /\ ~o_eof
    /\ Len(o_written) < MaxOutput
    /\ o_written' = Append(o_written, c)
    /\ o_unread' = Append(o_unread, c)
    /\ UNCHANGED <<app, appvars, svars, pvars, tvars, o_log, o_eof>>

\* the child closes its output
OChildClose ==
    /\ ~o_eof
    /\ o_eof' = TRUE
    /\ UNCHANGED <<app, appvars, svars, pvars, tvars, o_written, o_unread, o_log>>

\* on_process_output, on readyReadStandardOutput: every line of the data
\* that is there becomes an entry
on_process_output ==
    /\ app = "desktop"
    /\ o_unread # <<>>
    /\ o_log' = o_log \o splitlines(o_unread)
    /\ o_unread' = <<>>
    /\ UNCHANGED <<app, appvars, svars, pvars, tvars, o_written, o_eof>>

\* one turn of `for line in process.stdout`: the next line, which ends at
\* its line end or at the end of the output, is appended without its end
BReadLine ==
    /\ app = "browser"
    /\ o_unread # <<>>
    /\ FirstLineEnd(o_unread) # 0 \/ o_eof
    /\ LET n == IF FirstLineEnd(o_unread) # 0
                THEN FirstLineEnd(o_unread) ELSE Len(o_unread)
       IN  /\ o_log' = Append(o_log, rstrip(SubSeq(o_unread, 1, n)))
           /\ o_unread' = SubSeq(o_unread, n + 1, Len(o_unread))
    /\ UNCHANGED <<app, appvars, svars, pvars, tvars, o_written, o_eof>>

OutputInit ==
    /\ app \in Shells
    /\ fs_install = FullInstall
    /\ AppStart
    /\ SettingsIdle
    /\ HarnessIdle

OutputNext ==
    \/ \E c \in OutputChars : OChildWrite(c)
    \/ OChildClose
    \/ on_process_output
    \/ BReadLine

OutputSpec == OutputInit /\ [][OutputNext]_vars

\* the complete lines of what the child has written: those that end in a
\* line end, and the rest of the output once the child has closed it
CompleteLines ==
    LET ends == {i \in 1..Len(o_written) : o_written[i] = "\n"}
        last == IF ends = {} THEN 0
                ELSE CHOOSE i \in ends : \A j \in ends : j <= i
    IN  splitlines(SubSeq(o_written, 1, last))
            \o (IF o_eof /\ last < Len(o_written)
                THEN <<SubSeq(o_written, last + 1, Len(o_written))>>
                ELSE <<>>)

\* C21: every entry appended to the log is one complete line of the child's
\* output, in the order written: a line split across two reads appears as
\* one entry, after its rest has arrived.
C21_LogHoldsCompleteLines ==
    /\ Len(o_log) <= Len(CompleteLines)
    /\ \A i \in 1..Len(o_log) : o_log[i] = CompleteLines[i]

(***************************************************************************)
(* The preset manager and the two lookups of a genre.                      *)
(*   p_file   the preset file                                              *)
(*   p_data   self.data of the PresetManager                               *)
(*   p_rets   what the calls of load returned, in order; the first is      *)
(*            self.presets of the desktop shell's PresetBrowser            *)
(*   p_found  the file each call of load found                             *)
(*   p_query  the last lookup of a genre: its name and the presets shown   *)
(***************************************************************************)
SamplePresets ==
    <<Preset("House - Club", "club house"), Preset("Tech House", "tech house")>>

SamplePresetLists ==
    {<<>>, <<SamplePresets[1]>>, <<SamplePresets[2]>>, SamplePresets}

GenreNames == {"EDM", "Custom", "Jazz"}

SampleGenres ==
    {Genre(n, ps) : n \in {"EDM", "Custom"}, ps \in SamplePresetLists}
        \cup {GenreWithoutPresets(n) : n \in {"EDM", "Custom"}}

SampleCatalogs == UNION {[1..k -> SampleGenres] : k \in 0..MaxGenres}

\* the preset files on disk: none, text that is no JSON object, objects
\* with and without the keys of a catalog, and the file a save left
PresetFiles ==
    {NoPresetFile, PresetSave(NoPresetFile, default_presets)}
        \cup {PresetFile(l, c) :
                l \in {"indent=2", "by hand"},
                c \in {InvalidJson, NonObjectJson}
                        \cup {Object(vs \o gs) :
                                vs \in {<<>>, << <<"version", JInt(1)>> >>},
                                gs \in {<<>>}
                                    \cup {<< <<"genres", JList(c)>> >> :
                                            c \in SampleCatalogs}}}

PresetInit ==
    /\ app \in Shells
    /\ fs_install = FullInstall
    /\ AppStart
    /\ SettingsIdle
    /\ OutputIdle
    /\ TimeIdle
    /\ p_file \in PresetFiles
    /\ p_data = DictOf(<<>>)
    /\ p_rets = <<>>
    /\ p_found = <<>>
    /\ p_query = NoQuery

\* preset_manager.load()
PLoad ==
    /\ Len(p_rets) < MaxLoads
    /\ p_data' = PresetLoad(p_file).data
    /\ p_file' = PresetLoad(p_file).file
    /\ p_rets' = Append(p_rets, PresetLoad(p_file).data)
    /\ p_found' = Append(p_found, p_file)
    /\ UNCHANGED <<app, appvars, svars, ovars, tvars, p_query>>

\* update_presets / load_preset_tags of the browser shell:
\* preset_manager.get_presets_for_genre(genre_name)
PGetPresets(genre_name) ==
    /\ app = "browser"
    /\ p_rets # <<>>
    /\ p_query' = Query(genre_name, get_presets_for_genre(p_data, genre_name))
    /\ UNCHANGED <<app, appvars, svars, ovars, tvars,
                   p_file, p_data, p_rets, p_found>>

\* the genre combo of the desktop shell changes its text
POnGenreChanged(genre_name) ==
    /\ app = "desktop"
    /\ p_rets # <<>>
    /\ p_query' = Query(genre_name, on_genre_changed(p_rets[1], genre_name))
    /\ UNCHANGED <<app, appvars, svars, ovars, tvars,
                   p_file, p_data, p_rets, p_found>>

PresetNext ==
    \/ PLoad
    \/ \E genre_name \in GenreNames : PGetPresets(genre_name)
    \/ \E genre_name \in GenreNames : POnGenreChanged(genre_name)

PresetSpec == PresetInit /\ [][PresetNext]_vars

\* C22: a load that finds no preset file writes the default catalog to the
\* path and returns it; after any load the file exists and holds an object
\* with the key "genres"; every later load returns what the first returned.
C22_LoadSeedsDefaults ==
    /\ [](p_rets # <<>> =>
            p_file.content.kind # "absent" /\ HasMarker(p_file.content))
    /\ [](\A i \in 1..Len(p_rets) : p_rets[i] = p_rets[1])
    /\ [][p_file = NoPresetFile /\ Len(p_rets') > Len(p_rets) =>
            /\ p_file'.content.kind = "object"
            /\ DictOf(p_file'.content.members) = default_presets
            /\ p_rets'[Len(p_rets')] = default_presets]_vars

\* a first load found no file, and a second load has returned
C22_Witness ==
    /\ Len(p_rets) = 2
    /\ p_found[1] = NoPresetFile
    /\ p_found[2] # NoPresetFile
    /\ p_rets[2] = default_presets

\* C23: a load that finds a file holding a JSON object with the key
\* "genres" returns that object and leaves the file as it is.
C23_MarkedFileReturnedVerbatim ==
    [][Len(p_rets') > Len(p_rets) /\ HasMarker(p_file.content) =>
            /\ p_file' = p_file
            /\ p_rets'[Len(p_rets')] = DictOf(p_file.content.members)]_vars

\* a load has found a hand-written catalog of one genre
C23_Witness ==
    /\ p_found # <<>>
    /\ HasMarker(p_found[1].content)
    /\ p_found[1].layout = "by hand"
    /\ Len(GenresOf(p_rets[1])) = 1
    /\ p_file = p_found[1]

\* the catalog a lookup of the running shell reads
LookupCatalog == IF app = "desktop" THEN p_rets[1] ELSE p_data

\* C24: a lookup of a genre name shows the presets, in stored order, of the
\* first genre of the catalog with that name, whatever genres of the name
\* follow it, and nothing when no genre has the name; in both shells.
C24_FirstMatchingGenre ==
    [][p_query' # p_query =>
        LET genres == GenresOf(LookupCatalog)
            q == p_query'
        IN  /\ \A i \in 1..Len(genres) :
                    /\ genres[i].name = q.name
                    /\ \A j \in 1..(i - 1) : genres[j].name # q.name
                    => q.result = PresetsOf(genres[i])
            /\ (\A i \in 1..Len(genres) : genres[i].name # q.name)
                    => q.result = <<>>]_vars

\* a lookup in the browser shell of a name that two genres with different
\* presets have
C24_Witness ==
    /\ app = "browser"
    /\ p_query.name = "EDM"
    /\ Len(GenresOf(p_data)) = 2
    /\ GenresOf(p_data)[1].name = "EDM"
    /\ GenresOf(p_data)[2].name = "EDM"
    /\ PresetsOf(GenresOf(p_data)[1]) = SamplePresets
    /\ PresetsOf(GenresOf(p_data)[2]) = <<SamplePresets[2]>>
    /\ p_query.result = SamplePresets

\* a load has returned a record for a file whose model_path is a text
LoadedPath ==
    /\ Loaded
    /\ s_result.ok
    /\ s_file.kind = "object"
    /\ "model_path" \in Keys(s_file.members)
    /\ DictOf(s_file.members)["model_path"].t = "str"

\* C25 as stated: load rewrites model_path only when the stored text begins
\* with "models/HeartMuLa"; every other text, one with "models/HeartMuLa" or
\* "models/heartmula" further inside included, is returned unchanged.
C25_RewritesPrefixOnly ==
    LoadedPath =>
        LET stored == DictOf(s_file.members)["model_path"].v IN
        s_result.rec["model_path"] =
            IF Len(stored) >= 2 /\ stored[1] = "models/" /\ stored[2] = "HeartMuLa"
            THEN JStr(<<"ckpt">>)
            ELSE JStr(stored)

\* C25: load rewrites model_path to "ckpt" exactly when "models/heartmula"
\* occurs anywhere in the stored text, in any case of its letters; every
\* other stored text is returned unchanged.
C25_RewritesWhereverNamed ==
    LoadedPath =>
        LET stored == DictOf(s_file.members)["model_path"].v IN
        s_result.rec["model_path"] =
            IF NamesLegacyFolder(stored) THEN JStr(<<"ckpt">>) ELSE JStr(stored)

\* a file whose model_path has the folder name inside it, in another case,
\* was loaded and came back as "ckpt"
C25_Witness ==
    /\ LoadedPath
    /\ s_pc = "loaded"
    /\ DictOf(s_file.members)["model_path"].v = <<"x/", "Models/", "heartmula">>
    /\ s_result.rec["model_path"] = JStr(<<"ckpt">>)

\* C26: in both shells the file a child in flight is told to write with
\* --save_path is the file the shell holds as the output of that request,
\* which it has probed to be free and will check, report and play; for a
\* relative output directory, one inside the root and one outside it.
C26_SavePathIsOutputFile ==
    /\ app = "desktop" =>
          \A p \in 1..Len(d_procs) :
              (<<"desktop", p>> \in InFlight /\ p = d_process)
                  => d_procs[p].cmd.save_path = d_current_output_file
    /\ app = "browser" =>
          \A s \in Sessions :
              (b_pc[s] = "running" /\ <<"browser", b_req[s].process>> \in InFlight)
                  => b_procs[b_req[s].process].cmd.save_path = b_req[s].output_file

\* a step in which the generate_music call of session s returns
BReturns(s) ==
    /\ b_pc'[s] = "idle"
    /\ \/ b_pc[s] = "running"
       \/ b_status'[s] # b_status[s]
       \/ b_audio'[s] # b_audio[s]

\* C27: a call of the browser shell's generate_music returns an audio path
\* exactly when it has come to the end of the child's output, the child has
\* exited with code 0 and the output file computed for the request exists,
\* and the path is that file; after a failed validation, a failed launch, an
\* exception while reading, a nonzero exit or an exit without the file it
\* returns None; it returns a status message in every case.
C27_AudioExactlyOnSuccess ==
    [][\A s \in Sessions : BReturns(s) =>
          /\ b_status'[s] # <<"">>
          /\ b_audio'[s] # NoFile <=>
                /\ b_pc[s] = "running"
                /\ b_status'[s] # <<"Error during generation">>
                /\ b_procs[b_req[s].process].os = "exited"
                /\ b_procs[b_req[s].process].code = 0
                /\ b_req[s].output_file \in fs_out
          /\ b_audio'[s] # NoFile => b_audio'[s] = b_req[s].output_file]_vars

\* a call has returned the file its child, ended with code 0, has written
C27_Witness ==
    \E s \in Sessions :
        /\ b_pc[s] = "idle"
        /\ b_audio[s] \in fs_out
        /\ b_status[s] = <<"Success", b_audio[s]>>
        /\ b_procs[Len(b_procs)].os = "exited"
        /\ b_procs[Len(b_procs)].code = 0

\* C28: in the desktop shell, whenever the play button is enabled,
\* current_output_file is not None and names the output of a run that has
\* finished with exit code 0.
C28_PlayHasFinishedOutput ==
    (app = "desktop" /\ d_btn.play) =>
        /\ d_current_output_file # NoFile
        /\ d_process # 0
        /\ d_procs[d_process].q = "NotRunning"
        /\ d_procs[d_process].os = "exited"
        /\ d_procs[d_process].code = 0

\* C29: in the desktop shell, between handlers, exactly one of the generate
\* and stop buttons is enabled; stop is enabled exactly while a child that
\* was spawned has not been reported finished, generate exactly when there
\* is no such child.
C29_ExactlyOneControl ==
    app = "desktop" =>
        /\ d_btn.generate # d_btn.stop
        /\ d_btn.stop <=>
              \E p \in 1..Len(d_procs) : d_procs[p].q \in {"Starting", "Running"}

(***************************************************************************)
(* The duration of the desktop shell on its way from the settings to the   *)
(* form and back.                                                          *)
(*   t_ms     settings.max_audio_length_ms as loaded                       *)
(*   t_time   the time the max_length editor holds, <<>> before it is set  *)
(*   t_saved  settings.max_audio_length_ms after save_settings, <<>>       *)
(*            before it                                                    *)
(***************************************************************************)
\* the stored durations: the whole seconds, and some that are not whole
StoredDurations ==
    {1000 * s : s \in 0..MaxSeconds}
        \cup {1000 * s + r : s \in 0..2, r \in {1, 499, 500, 501, 999}}

TimeInit ==
    /\ app = "desktop"
    /\ fs_install = FullInstall
    /\ AppStart
    /\ SettingsIdle
    /\ OutputIdle
    /\ PresetIdle
    /\ t_ms \in StoredDurations
    /\ t_time = <<>>
    /\ t_saved = <<>>

\* create_parameters_group: self.max_length.setTime(ms_to_time(...))
TShow ==
    /\ t_time = <<>>
    /\ t_time' = <<ms_to_time(t_ms)>>
    /\ UNCHANGED <<app, appvars, svars, ovars, pvars, t_ms, t_saved>>

\* save_settings: max_audio_length_ms = time_to_ms(self.max_length.time())
TSave ==
    /\ t_time # <<>>
    /\ t_saved = <<>>
    /\ t_saved' = <<time_to_ms(SecondsOf(t_time[1]))>>
    /\ UNCHANGED <<app, appvars, svars, ovars, pvars, t_ms, t_time>>

TimeNext == TShow \/ TSave

TimeSpec == TimeInit /\ [][TimeNext]_vars

\* C30: a duration of a whole number of seconds from 1000 ms to 86399000 ms
\* comes back from ms_to_time and time_to_ms as it was; the time shown is
\* never below one second, so that 0 ms is shown as 00:00:01 and saved as
\* 1000 ms; the hours shown are the hours of the duration modulo 24.
C30_WholeSecondsRoundTrip ==
    /\ (t_saved # <<>> /\ t_ms % 1000 = 0 /\ t_ms >= 1000 /\ t_ms <= 86399000)
            => t_saved[1] = t_ms
    /\ t_time # <<>> =>
            /\ SecondsOf(t_time[1]) >= 1
            /\ t_time[1].hour \in 0..23
            /\ (t_ms % 1000 = 0 /\ t_ms >= 1000)
                    => t_time[1].hour = (t_ms \div 3600000) % 24
    /\ (t_ms = 0 /\ t_time # <<>>) => t_time[1] = QTime(0, 0, 1)
    /\ (t_ms = 0 /\ t_saved # <<>>) => t_saved[1] = 1000
====
